---- MODULE Spec2Model ----
(***************************************************************************)
(* Model of the groq-wasm boundary adapter (packages/groq-wasm/rust/src/   *)
(* lib.rs): the two exported functions lint and format, the JsFinding      *)
(* record and its JSON encoding, together with the parts of the wrapped    *)
(* groq_lint / groq_format libraries the adapter calls (lexer, parser,     *)
(* lint engine, formatter), which are modelled from the design document.   *)
(*                                                                         *)
(* Text is a sequence of one-character strings; every character is one     *)
(* byte, so the byte offset of src[i] is i - 1.                            *)
(***************************************************************************)
EXTENDS Integers, Sequences, FiniteSets, TLC

VARIABLES
    hook,       \* TRUE when init() installed the console panic hook
    call,       \* the call the host made last: [fn, query, width]
    invoked,    \* how the wrapped library was invoked by that call
    ret,        \* what the call returned to the host: [tag, val]
    console,    \* number of panic reports written to the host console
    firstLint,  \* the first lint call of the session: <<>> or <<[query, ret]>>
    nCalls      \* calls made so far

vars == <<hook, call, invoked, ret, console, firstLint, nCalls>>

-----------------------------------------------------------------------------
(* Bounds of the model *)

MaxLen == 7          \* characters of the expressions the queries are drawn from
MaxWidth == 8        \* explicit widths 0..MaxWidth are tried, and the default
MaxCalls == 3        \* calls per session
MaxSessionLen == 2   \* length of the queries used in multi-call sessions

-----------------------------------------------------------------------------
(* Text helpers *)

Whitespace == {" ", "\n", "\t"}

Letters ==
    {"a", "b", "c", "d", "e", "i", "l", "o", "p", "s", "t", "y", "_"}

Punctuation == {"*", "[", "]", "{", "}", ",", "+"}

RECURSIVE Concat(_)
Concat(ss) == IF ss = <<>> THEN <<>> ELSE Head(ss) \o Concat(Tail(ss))

Prefixes(s) == {SubSeq(s, 1, n) : n \in 0..Len(s)}

Digit(d) ==
    CASE d = 0 -> "0" [] d = 1 -> "1" [] d = 2 -> "2" [] d = 3 -> "3"
      [] d = 4 -> "4" [] d = 5 -> "5" [] d = 6 -> "6" [] d = 7 -> "7"
      [] d = 8 -> "8" [] d = 9 -> "9"

DigitValue(c) ==
    CASE c = "0" -> 0 [] c = "1" -> 1 [] c = "2" -> 2 [] c = "3" -> 3
      [] c = "4" -> 4 [] c = "5" -> 5 [] c = "6" -> 6 [] c = "7" -> 7
      [] c = "8" -> 8 [] c = "9" -> 9

Digits == {"0", "1", "2", "3", "4", "5", "6", "7", "8", "9"}

\* Display of a usize: its decimal digits, most significant first.
RECURSIVE Decimal(_)
Decimal(n) == IF n < 10 THEN <<Digit(n)>> ELSE Decimal(n \div 10) \o <<Digit(n % 10)>>

-----------------------------------------------------------------------------
(* Lexer (design document 4.1): source text to tokens with byte spans *)

Span(s, e) == [start |-> s, end |-> e]

Token(k, txt, s, e) == [kind |-> k, text |-> txt, span |-> Span(s, e)]

Failure(k, sp, expected, msg) ==
    [ok |-> FALSE, err |-> [kind |-> k, span |-> sp, expected |-> expected, message |-> msg]]

PunctKind(c) ==
    CASE c = "*" -> "Star" [] c = "[" -> "LBracket" [] c = "]" -> "RBracket"
      [] c = "{" -> "LBrace" [] c = "}" -> "RBrace" [] c = "," -> "Comma"
      [] c = "+" -> "Plus"

\* Index just past the identifier starting at i.
RECURSIVE IdentEnd(_, _)
IdentEnd(src, i) ==
    IF i <= Len(src) /\ src[i] \in Letters THEN IdentEnd(src, i + 1) ELSE i

\* Scan of a string body from i (just past the opening quote): the index of the
\* closing quote, 0 when the input ends first, -j for an invalid escape at j.
RECURSIVE StringEnd(_, _)
StringEnd(src, i) ==
    IF i > Len(src) THEN 0
    ELSE IF src[i] = "\"" THEN i
    ELSE IF src[i] = "\\"
         THEN IF i + 1 <= Len(src) /\ src[i + 1] \in {"\"", "\\"}
              THEN StringEnd(src, i + 2)
              ELSE 0 - i
    ELSE StringEnd(src, i + 1)

RECURSIVE LexFrom(_, _, _)
LexFrom(src, i, acc) ==
    IF i > Len(src)
    THEN [ok |-> TRUE, tokens |-> Append(acc, Token("Eof", <<>>, Len(src), Len(src)))]
    ELSE LET c == src[i] IN
         IF c \in Whitespace THEN LexFrom(src, i + 1, acc)
         ELSE IF c \in Punctuation
         THEN LexFrom(src, i + 1, Append(acc, Token(PunctKind(c), <<c>>, i - 1, i)))
         ELSE IF c = "="
         THEN IF i + 1 <= Len(src) /\ src[i + 1] = "="
              THEN LexFrom(src, i + 2, Append(acc, Token("EqEq", <<"=", "=">>, i - 1, i + 1)))
              ELSE Failure("LexError", Span(i - 1, i), {}, "unexpected character")
         ELSE IF c \in Letters
         THEN LET j == IdentEnd(src, i) IN
              LexFrom(src, j, Append(acc, Token("Ident", SubSeq(src, i, j - 1), i - 1, j - 1)))
         ELSE IF c = "\""
         THEN LET j == StringEnd(src, i + 1) IN
              IF j = 0
              THEN Failure("LexError", Span(i - 1, Len(src)), {}, "unterminated string")
              ELSE IF j < 0
              THEN Failure("LexError", Span(0 - j - 1, 0 - j), {}, "invalid escape")
              ELSE LexFrom(src, j + 1, Append(acc, Token("String", SubSeq(src, i, j), i - 1, j)))
         ELSE Failure("LexError", Span(i - 1, i), {}, "unexpected character")

Lex(src) == LexFrom(src, 1, <<>>)

-----------------------------------------------------------------------------
(* Parser (design document 4.2): precedence climbing for binary operators,   *)
(* recursive descent for filters and projections; all-or-nothing.            *)

MaxNesting == 2      \* the parser's guard: deepest nesting of brackets and braces

Node(k, txt, kids, s, e) == [kind |-> k, text |-> txt, kids |-> kids, span |-> Span(s, e)]

Parsed(n, p) == [ok |-> TRUE, node |-> n, pos |-> p]

\* Binding power of a binary operator token, 0 for any other token:
\* comparison binds looser than arithmetic.
Prec(tok) == CASE tok.kind = "EqEq" -> 1 [] tok.kind = "Plus" -> 2 [] OTHER -> 0

PrimaryKinds == {"Star", "Ident", "String"}

Unexpected(tok, expected) == Failure("SyntaxError", tok.span, expected, "unexpected token")

RECURSIVE ParseExpr(_, _, _, _)
RECURSIVE BinaryLoop(_, _, _, _, _)
RECURSIVE ParsePostfix(_, _, _)
RECURSIVE PostfixLoop(_, _, _, _)
RECURSIVE ParseFields(_, _, _, _)

ParsePrimary(toks, pos) ==
    LET tok == toks[pos] IN
    IF tok.kind \in PrimaryKinds
    THEN Parsed(Node(tok.kind, tok.text, <<>>, tok.span.start, tok.span.end), pos + 1)
    ELSE Unexpected(tok, PrimaryKinds)

\* The fields of a projection, after the opening brace or a comma; acc holds
\* the fields read so far. Returns the fields and the position of the closing brace.
ParseFields(toks, pos, acc, depth) ==
    IF acc = <<>> /\ toks[pos].kind = "RBrace"
    THEN [ok |-> TRUE, fields |-> acc, pos |-> pos]
    ELSE LET f == ParseExpr(toks, pos, 1, depth) IN
         IF ~f.ok THEN f
         ELSE LET tok == toks[f.pos] IN
              IF tok.kind = "Comma"
              THEN ParseFields(toks, f.pos + 1, Append(acc, f.node), depth)
              ELSE IF tok.kind = "RBrace"
              THEN [ok |-> TRUE, fields |-> Append(acc, f.node), pos |-> f.pos]
              ELSE Unexpected(tok, {"Comma", "RBrace"})

PostfixLoop(toks, pos, base, depth) ==
    LET tok == toks[pos] IN
    IF tok.kind = "LBracket"
    THEN LET c == ParseExpr(toks, pos + 1, 1, depth + 1) IN
         IF ~c.ok THEN c
         ELSE IF toks[c.pos].kind # "RBracket"
         THEN Unexpected(toks[c.pos], {"RBracket"})
         ELSE PostfixLoop(toks, c.pos + 1,
                  Node("Filter", <<>>, <<base, c.node>>,
                       base.span.start, toks[c.pos].span.end), depth)
    ELSE IF tok.kind = "LBrace"
    THEN LET fs == ParseFields(toks, pos + 1, <<>>, depth + 1) IN
         IF ~fs.ok THEN fs
         ELSE PostfixLoop(toks, fs.pos + 1,
                  Node("Projection", <<>>, <<base>> \o fs.fields,
                       base.span.start, toks[fs.pos].span.end), depth)
    ELSE Parsed(base, pos)

ParsePostfix(toks, pos, depth) ==
    LET b == ParsePrimary(toks, pos) IN
    IF ~b.ok THEN b ELSE PostfixLoop(toks, b.pos, b.node, depth)

BinaryLoop(toks, pos, lhs, minPrec, depth) ==
    LET tok == toks[pos]
        p == Prec(tok) IN
    IF p = 0 \/ p < minPrec THEN Parsed(lhs, pos)
    ELSE LET r == ParseExpr(toks, pos + 1, p + 1, depth) IN
         IF ~r.ok THEN r
         ELSE BinaryLoop(toks, r.pos,
                  Node("Binary", tok.text, <<lhs, r.node>>,
                       lhs.span.start, r.node.span.end), minPrec, depth)

ParseExpr(toks, pos, minPrec, depth) ==
    IF depth > MaxNesting
    THEN Failure("ResourceLimitExceeded", toks[pos].span, {}, "nesting too deep")
    ELSE LET l == ParsePostfix(toks, pos, depth) IN
         IF ~l.ok THEN l ELSE BinaryLoop(toks, l.pos, l.node, minPrec, depth)

\* One root node for the whole query, or the first failure.
Parse(src) ==
    LET lx == Lex(src) IN
    IF ~lx.ok THEN lx
    ELSE IF lx.tokens[1].kind = "Eof"
    THEN Failure("SyntaxError", lx.tokens[1].span, PrimaryKinds, "empty query")
    ELSE LET e == ParseExpr(lx.tokens, 1, 1, 0) IN
         IF ~e.ok THEN e
         ELSE IF lx.tokens[e.pos].kind # "Eof"
         THEN Unexpected(lx.tokens[e.pos], {"Eof"})
         ELSE [ok |-> TRUE, node |-> e.node]

\* The tree without its spans: structural equality of ASTs.
RECURSIVE Shape(_)
Shape(n) == [kind |-> n.kind, text |-> n.text,
             kids |-> [i \in DOMAIN n.kids |-> Shape(n.kids[i])]]

-----------------------------------------------------------------------------
(* Lint engine (design document 4.3): one pre-order traversal, every node    *)
(* dispatched to every registered rule, findings sorted before returning.    *)

Severities == {"Error", "Warning", "Info"}

Finding(id, msg, sev, sp) == [rule_id |-> id, message |-> msg, severity |-> sev, span |-> sp]

\* The registered rules, in registration order.
Rules == <<"self-compare", "empty-projection", "star-field", "chained-compare">>

\* The findings of one rule at one node, in the order the rule emits them.
\* star-field reports the starred fields of a projection last to first.
RuleFindings(rule, n) ==
    CASE rule = "self-compare" ->
           IF n.kind = "Binary" /\ n.text = <<"=", "=">>
              /\ Shape(n.kids[1]) = Shape(n.kids[2])
           THEN <<Finding(<<rule>>, <<"both operands of ", "\"", "==", "\"", " are the same">>,
                          "Error", n.span)>>
           ELSE <<>>
      [] rule = "empty-projection" ->
           IF n.kind = "Projection" /\ Len(n.kids) = 1
           THEN <<Finding(<<rule>>, <<"projection selects no field">>, "Warning", n.span)>>
           ELSE <<>>
      [] rule = "star-field" ->
           IF n.kind = "Projection"
           THEN LET stars == SelectSeq(Tail(n.kids), LAMBDA f : f.kind = "Star") IN
                [i \in 1..Len(stars) |->
                    Finding(<<rule>>, <<"field ", "*", " selects everything">>, "Info",
                            stars[Len(stars) + 1 - i].span)]
           ELSE <<>>
      [] rule = "chained-compare" ->
           IF n.kind = "Binary" /\ n.text = <<"=", "=">>
              /\ n.kids[1].kind = "Binary" /\ n.kids[1].text = <<"=", "=">>
           THEN <<Finding(<<rule>>, <<"comparison of a comparison">>, "Warning", n.span)>>
           ELSE <<>>

\* Pre-order collection: the node's findings rule by rule, then its children's.
\* Each entry remembers the registration index of the rule that produced it.
RECURSIVE Collect(_)
Collect(n) ==
    Concat([r \in 1..Len(Rules) |->
               LET fs == RuleFindings(Rules[r], n) IN
               [i \in 1..Len(fs) |-> [rule |-> r, finding |-> fs[i]]]])
    \o Concat([k \in 1..Len(n.kids) |-> Collect(n.kids[k])])

\* Ascending span start, then rule registration order.
Before(a, b) ==
    \/ a.finding.span.start < b.finding.span.start
    \/ a.finding.span.start = b.finding.span.start /\ a.rule < b.rule

\* Stable insertion of e into the sorted sequence s.
RECURSIVE Insert(_, _)
Insert(e, s) ==
    IF s = <<>> THEN <<e>>
    ELSE IF Before(e, Head(s)) THEN <<e>> \o s
    ELSE <<Head(s)>> \o Insert(e, Tail(s))

RECURSIVE SortEntries(_)
SortEntries(s) ==
    IF s = <<>> THEN <<>>
    ELSE Insert(s[Len(s)], SortEntries(SubSeq(s, 1, Len(s) - 1)))

\* groq_lint::lint: the sorted findings of the query, or the parse failure.
groq_lint_lint(query) ==
    LET p == Parse(query) IN
    IF ~p.ok THEN [ok |-> FALSE, err |-> p.err]
    ELSE LET es == SortEntries(Collect(p.node)) IN
         [ok |-> TRUE, findings |-> [i \in 1..Len(es) |-> es[i].finding]]

-----------------------------------------------------------------------------
(* Formatter (design document 4.4): the AST is turned into a document of     *)
(* layout primitives, and the document is laid out greedily under a width.   *)

IndentStep == 2      \* columns per indent scope

DText(s) == [t |-> "text", s |-> s, kids |-> <<>>]
DLine(flat) == [t |-> "softline", s |-> flat, kids |-> <<>>]
DIndent(kids) == [t |-> "indent", s |-> <<>>, kids |-> kids]
DGroup(kids) == [t |-> "group", s |-> <<>>, kids |-> kids]
DConcat(kids) == [t |-> "concat", s |-> <<>>, kids |-> kids]

\* The fields of a projection, a comma and a softline between two of them.
RECURSIVE FieldDocs(_, _)
FieldDocs(docs, i) ==
    IF i > Len(docs) THEN <<>>
    ELSE IF i = Len(docs) THEN <<docs[i]>>
    ELSE <<docs[i], DText(<<",">>), DLine(<<" ">>)>> \o FieldDocs(docs, i + 1)

RECURSIVE ToDoc(_)
ToDoc(n) ==
    CASE n.kind \in PrimaryKinds -> DText(n.text)
      [] n.kind = "Binary" ->
           DConcat(<<ToDoc(n.kids[1]), DText(<<" ">> \o n.text \o <<" ">>), ToDoc(n.kids[2])>>)
      [] n.kind = "Filter" ->
           DConcat(<<ToDoc(n.kids[1]), DText(<<"[">>), ToDoc(n.kids[2]), DText(<<"]">>)>>)
      [] n.kind = "Projection" ->
           IF Len(n.kids) = 1
           THEN DConcat(<<ToDoc(n.kids[1]), DText(<<"{", "}">>)>>)
           ELSE DConcat(<<ToDoc(n.kids[1]),
                    DGroup(<<DText(<<"{">>),
                             DIndent(<<DLine(<<>>)>>
                                 \o FieldDocs([i \in 1..(Len(n.kids) - 1) |-> ToDoc(n.kids[i + 1])], 1)),
                             DLine(<<>>),
                             DText(<<"}">>)>>)>>)

\* Width of the single-line rendering of a document.
RECURSIVE FlatWidth(_)
RECURSIVE FlatWidthSeq(_, _)
FlatWidthSeq(docs, i) ==
    IF i > Len(docs) THEN 0 ELSE FlatWidth(docs[i]) + FlatWidthSeq(docs, i + 1)

FlatWidth(d) == IF d.kids = <<>> THEN Len(d.s) ELSE FlatWidthSeq(d.kids, 1)

Spaces(n) == [i \in 1..n |-> " "]

\* Layout, left to right: the text a document renders to from column col, and
\* the column reached. A group is rendered flat when its single-line rendering
\* fits in what is left of the line, broken otherwise.
RECURSIVE Render(_, _, _, _, _)
RECURSIVE RenderSeq(_, _, _, _, _, _)
RenderSeq(docs, i, indent, flat, at, width) ==
    IF i > Len(docs) THEN at
    ELSE LET r == Render(docs[i], indent, flat, at.col, width) IN
         RenderSeq(docs, i + 1, indent, flat, [out |-> at.out \o r.out, col |-> r.col], width)

Render(d, indent, flat, col, width) ==
    CASE d.t = "text" -> [out |-> d.s, col |-> col + Len(d.s)]
      [] d.t = "softline" ->
           IF flat THEN [out |-> d.s, col |-> col + Len(d.s)]
           ELSE [out |-> <<"\n">> \o Spaces(indent), col |-> indent]
      [] d.t = "indent" ->
           RenderSeq(d.kids, 1, indent + IndentStep, flat, [out |-> <<>>, col |-> col], width)
      [] d.t = "group" ->
           RenderSeq(d.kids, 1, indent, flat \/ FlatWidth(d) <= width - col,
                     [out |-> <<>>, col |-> col], width)
      [] d.t = "concat" ->
           RenderSeq(d.kids, 1, indent, flat, [out |-> <<>>, col |-> col], width)

\* groq_format::format_query: the formatted text, or the parse failure.
groq_format_format_query(query, width) ==
    LET p == Parse(query) IN
    IF ~p.ok THEN [ok |-> FALSE, err |-> p.err]
    ELSE [ok |-> TRUE, text |-> Render(ToDoc(p.node), 0, FALSE, 0, width).out]

-----------------------------------------------------------------------------
(* The adapter: JsFinding and its JSON text *)

UpperOf(c) ==
    CASE c = "a" -> "A" [] c = "d" -> "D" [] c = "e" -> "E" [] c = "f" -> "F"
      [] c = "g" -> "G" [] c = "i" -> "I" [] c = "m" -> "M" [] c = "n" -> "N"
      [] c = "o" -> "O" [] c = "r" -> "R" [] c = "s" -> "S" [] c = "t" -> "T"
      [] c = "u" -> "U" [] c = "v" -> "V" [] c = "w" -> "W" [] c = "y" -> "Y"
      [] OTHER -> c

LowerOf(c) ==
    CASE c = "A" -> "a" [] c = "D" -> "d" [] c = "E" -> "e" [] c = "F" -> "f"
      [] c = "G" -> "g" [] c = "I" -> "i" [] c = "M" -> "m" [] c = "N" -> "n"
      [] c = "O" -> "o" [] c = "R" -> "r" [] c = "S" -> "s" [] c = "T" -> "t"
      [] c = "U" -> "u" [] c = "V" -> "v" [] c = "W" -> "w" [] c = "Y" -> "y"
      [] OTHER -> c

\* str::to_lowercase
to_lowercase(s) == [i \in DOMAIN s |-> LowerOf(s[i])]

\* The derived Debug of Severity: the variant's name.
DebugSeverity(sev) ==
    CASE sev = "Error" -> <<"E", "r", "r", "o", "r">>
      [] sev = "Warning" -> <<"W", "a", "r", "n", "i", "n", "g">>
      [] sev = "Info" -> <<"I", "n", "f", "o">>

\* The fields of JsFinding, in declaration order.
JsFields ==
    << <<"r", "u", "l", "e", "_", "i", "d">>,
       <<"m", "e", "s", "s", "a", "g", "e">>,
       <<"s", "e", "v", "e", "r", "i", "t", "y">>,
       <<"s", "t", "a", "r", "t">>,
       <<"e", "n", "d">> >>

\* serde(rename_all = "camelCase"): an underscore is dropped and the letter
\* after it is capitalised.
RECURSIVE CamelCase(_)
CamelCase(name) ==
    IF name = <<>> THEN <<>>
    ELSE IF Head(name) = "_"
    THEN IF Len(name) >= 2
         THEN <<UpperOf(name[2])>> \o CamelCase(SubSeq(name, 3, Len(name)))
         ELSE <<>>
    ELSE <<Head(name)>> \o CamelCase(Tail(name))

\* Faulty variant: the severity keeps the capital of the variant's name.
JsFindingOf_noLower(f) ==
    [rule_id |-> f.rule_id,
     message |-> f.message,
     severity |-> DebugSeverity(f.severity),
     start |-> f.span.start,
     end |-> f.span.end]

\* The closure of lint's map: one JsFinding of one Finding.
JsFindingOf(f) ==
    [rule_id |-> f.rule_id,
     message |-> f.message,
     severity |-> to_lowercase(DebugSeverity(f.severity)),
     start |-> f.span.start,
     end |-> f.span.end]

\* Faulty variant: the last finding is lost.
js_findings_dropLast(findings) ==
    [i \in 1..(IF findings = <<>> THEN 0 ELSE Len(findings) - 1) |-> JsFindingOf(findings[i])]

\* Faulty variant: the findings come out last to first.
js_findings_rev(findings) ==
    [i \in 1..Len(findings) |-> JsFindingOf(findings[Len(findings) + 1 - i])]

\* findings.into_iter().map(..).collect()
js_findings(findings) == [i \in 1..Len(findings) |-> JsFindingOf(findings[i])]

\* A JSON string: the text between quotes, quotes and backslashes escaped.
JsonEscape(c) == IF c = "\"" THEN <<"\\", "\"">> ELSE IF c = "\\" THEN <<"\\", "\\">> ELSE <<c>>

JsonString(s) == <<"\"">> \o Concat([i \in DOMAIN s |-> JsonEscape(s[i])]) \o <<"\"">>

JsonKey(k) == JsonString(CamelCase(JsFields[k])) \o <<":">>

JsonObject(j) ==
    <<"{">> \o JsonKey(1) \o JsonString(j.rule_id)
    \o <<",">> \o JsonKey(2) \o JsonString(j.message)
    \o <<",">> \o JsonKey(3) \o JsonString(j.severity)
    \o <<",">> \o JsonKey(4) \o Decimal(j.start)
    \o <<",">> \o JsonKey(5) \o Decimal(j.end)
    \o <<"}">>

RECURSIVE JsonElements(_, _)
JsonElements(js, i) ==
    IF i > Len(js) THEN <<>>
    ELSE (IF i > 1 THEN <<",">> ELSE <<>>) \o JsonObject(js[i]) \o JsonElements(js, i + 1)

\* serde_json::to_string of a Vec<JsFinding>: a Result, which is Ok for every
\* value, since the derived Serialize of strings and integers does not fail.
to_string(js) == [ok |-> TRUE, text |-> <<"[">> \o JsonElements(js, 1) \o <<"]">>]

\* Reading the JSON text back (serde_json::from_str::<Vec<JsFinding>>, as the
\* crate's test does): positions are indices into the text.
RECURSIVE ReadString(_, _, _)
ReadString(txt, i, acc) ==
    IF txt[i] = "\"" THEN [val |-> acc, pos |-> i + 1]
    ELSE IF txt[i] = "\\" THEN ReadString(txt, i + 2, Append(acc, txt[i + 1]))
    ELSE ReadString(txt, i + 1, Append(acc, txt[i]))

RECURSIVE ReadNumber(_, _, _)
ReadNumber(txt, i, acc) ==
    IF i <= Len(txt) /\ txt[i] \in Digits
    THEN ReadNumber(txt, i + 1, 10 * acc + DigitValue(txt[i]))
    ELSE [val |-> acc, pos |-> i]

\* The members of an object from i (just past a brace or a comma) to its
\* closing brace: a sequence of [key, str, num], one of str and num being set.
RECURSIVE ReadMembers(_, _, _)
ReadMembers(txt, i, acc) ==
    LET k == ReadString(txt, i + 1, <<>>)
        v == IF txt[k.pos + 1] = "\""
             THEN LET sv == ReadString(txt, k.pos + 2, <<>>) IN
                  [m |-> [key |-> k.val, str |-> <<sv.val>>, num |-> <<>>], pos |-> sv.pos]
             ELSE LET nv == ReadNumber(txt, k.pos + 1, 0) IN
                  [m |-> [key |-> k.val, str |-> <<>>, num |-> <<nv.val>>], pos |-> nv.pos]
    IN IF txt[v.pos] = ","
       THEN ReadMembers(txt, v.pos + 1, Append(acc, v.m))
       ELSE [val |-> Append(acc, v.m), pos |-> v.pos + 1]

Member(ms, k) ==
    LET hits == SelectSeq(ms, LAMBDA m : m.key = CamelCase(JsFields[k])) IN hits[1]

DecodeJsFinding(ms) ==
    [rule_id |-> Member(ms, 1).str[1],
     message |-> Member(ms, 2).str[1],
     severity |-> Member(ms, 3).str[1],
     start |-> Member(ms, 4).num[1],
     end |-> Member(ms, 5).num[1]]

\* The objects of a JSON array, each as its members.
RECURSIVE ReadElements(_, _, _)
ReadElements(txt, i, acc) ==
    IF txt[i] = "]" THEN acc
    ELSE LET o == ReadMembers(txt, (IF txt[i] = "," THEN i + 1 ELSE i) + 1, <<>>) IN
         ReadElements(txt, o.pos, Append(acc, o.val))

from_str(txt) ==
    LET objs == ReadElements(txt, 2, <<>>) IN
    [i \in 1..Len(objs) |-> DecodeJsFinding(objs[i])]

-----------------------------------------------------------------------------
(* The adapter: the exported functions *)

DefaultWidth == 80

Ok(text) == [tag |-> "Ok", val |-> text, error |-> <<>>]

\* JsValue::from_str(&format!("<prefix>{}", e)) or "{:?}": the error string is
\* the prefix followed by the Display or Debug rendering of the library's error.
Err(prefix, fmt, e) ==
    [tag |-> "Err", val |-> <<>>, error |-> <<[prefix |-> prefix, fmt |-> fmt, err |-> e]>>]

\* A panic that leaves the exported function: no value is returned.
Trap == [tag |-> "Trap", val |-> <<>>, error |-> <<>>]

\* to_string(..).map_err(..)
serialized(s) ==
    IF s.ok THEN Ok(s.text) ELSE Err("Serialization error: ", "Display", s.err)

\* Faulty variant: a failure of the linter is reported as an empty list.
lint_of_partial(r) ==
    IF r.ok THEN serialized(to_string(js_findings(r.findings)))
    ELSE serialized(to_string(<<>>))

\* lint's match on what groq_lint::lint returned.
lint_of(r) ==
    IF r.ok THEN serialized(to_string(js_findings(r.findings)))
    ELSE Err("Lint error: ", "Display", r.err)

\* Faulty variant: the text of the last successful lint call is kept and
\* returned again, whatever the query.
lint_stale(query) ==
    IF call.fn = "lint" /\ ret.tag = "Ok" THEN ret ELSE lint_of(groq_lint_lint(query))

lint(query) == lint_of(groq_lint_lint(query))

\* Option<usize> is <<>> for None and <<w>> for Some(w).
unwrap_or(opt, default) == IF opt = <<>> THEN default ELSE opt[1]

\* Faulty variant: the width the caller supplied is ignored.
format_width_ignored(width) == DefaultWidth

format_width(width) == unwrap_or(width, DefaultWidth)

\* Faulty variant: a failure of the formatter is replaced by the empty text.
format_of_default(r) == IF r.ok THEN Ok(r.text) ELSE Ok(<<>>)

\* Faulty variant: the text is returned JSON-encoded, as lint's result is.
format_of_quoted(r) ==
    IF r.ok THEN Ok(JsonString(r.text))
    ELSE Err("Format error: ", "Debug", r.err)

\* format's map_err on what groq_format::format_query returned.
format_of(r) ==
    IF r.ok THEN Ok(r.text)
    ELSE Err("Format error: ", "Debug", r.err)

format(query, width) == format_of(groq_format_format_query(query, format_width(width)))

-----------------------------------------------------------------------------
(* The inputs the host passes *)

Atoms == {<<"*">>, <<"a">>}

BinOps == {<<"=", "=">>, <<"+">>}

Tight(toks) == Concat(toks)

Spaced(toks) == Concat([i \in 1..Len(toks) |-> IF i = 1 THEN toks[i] ELSE <<" ">> \o toks[i]])

Short(es) == {e \in es : Len(Tight(e)) <= MaxLen}

\* The expressions with n operator nodes (binary, filter, projection of up to
\* two fields) and at most MaxLen characters, each as its sequence of tokens.
RECURSIVE Exprs(_)
Exprs(n) ==
    IF n = 0 THEN {<<a>> : a \in Atoms}
    ELSE UNION {
           Short({l \o <<op>> \o r : l \in Exprs(i), r \in Exprs(n - 1 - i), op \in BinOps})
           \cup Short({b \o << <<"[">> >> \o c \o << <<"]">> >> :
                          b \in Exprs(i), c \in Exprs(n - 1 - i)})
           \cup Short({b \o << <<"{">> >> \o f \o << <<"}">> >> :
                          b \in Exprs(i), f \in Exprs(n - 1 - i)})
           \cup UNION {
                  Short({b \o << <<"{">> >> \o f \o << <<",">> >> \o g \o << <<"}">> >> :
                            b \in Exprs(i), f \in Exprs(j), g \in Exprs(n - 1 - i - j)})
                  : j \in 0..(n - 1 - i)}
           : i \in 0..(n - 1)}
         \cup Short({b \o << <<"{">>, <<"}">> >> : b \in Exprs(n - 1)})

\* An expression with n operator nodes has 2n + 1 characters or more.
AllExprs == UNION {Exprs(n) : n \in 0..((MaxLen - 1) \div 2)}

\* What is appended to a whole query: a stray bracket, half an operator, a
\* second expression, a character of no token.
Garbage == {<<"]">>, <<"=">>, <<" ", "a">>, <<"#">>}

\* The queries of the crate's tests and of the design document's scenarios,
\* and one for each lexical error and for the nesting guard.
ScenarioQueries ==
    { <<"*", "[", "_", "t", "y", "p", "e", " ", "=", "=", " ", "\"", "p", "o", "s", "t", "\"", "]">>,
      <<"*", "[", "_", "t", "y", "p", "e", "=", "=", "\"", "p", "o", "s", "t", "\"", "]",
        "{", "t", "i", "t", "l", "e", "}">>,
      <<"*", "[", "_", "t", "y", "p", "e", "=", "=">>,
      <<"*", "{", "a", ",", "b", ",", "c", ",", "d", ",", "e", "}">>,
      <<"*", "[", "*", "[", "*", "[", "*", "]", "]", "]">>,
      <<"*", "[", "a", "=", "=", "\"", "p", "o">>,
      <<"a", "=", "=", "\"", "\\", "p", "\"">>,
      <<"a", "\n", "{", "\"", "\\", "\"", "\"", ",", "\t", "*", "}">> }

Queries ==
    UNION {Prefixes(Tight(e)) \cup {Spaced(e)} \cup {Tight(e) \o g : g \in Garbage}
           : e \in AllExprs}
    \cup ScenarioQueries

\* The queries of multi-call sessions: the shortest ones, and one query for each
\* kind of lint result (findings, a warning, a syntax error, a lexical error).
SessionScenarios ==
    { <<"a", "=", "=", "a">>, <<"*", "{", "}">>, <<"*", "[", "a", "=", "=">>, <<"a", "=", "b">> }

SessionQueries == {q \in Queries : Len(q) <= MaxSessionLen} \cup SessionScenarios

WidthArgs == {<<>>, <<DefaultWidth>>} \cup {<<w>> : w \in 0..MaxWidth}

SessionWidths == {<<>>, <<0>>, <<DefaultWidth>>}

-----------------------------------------------------------------------------
(* The host's calls *)

NoCall == [fn |-> "none", query |-> <<>>, width |-> <<>>, panics |-> FALSE, again |-> FALSE]

\* The library call a host call made: its arguments and, unless it panicked,
\* what it returned.
NotInvoked == [fn |-> "none", query |-> <<>>, width |-> <<>>, result |-> <<>>]

Init ==
    /\ hook \in BOOLEAN
    /\ call = NoCall
    /\ invoked = NotInvoked
    /\ ret = Ok(<<>>)
    /\ console = 0
    /\ firstLint = <<>>
    /\ nCalls = 0

\* What a call of lint gives the host: lint has no catch_unwind, so a panic of
\* the library leaves lint as a panic.
LintOutcome(query, panics) == IF panics THEN Trap ELSE lint(query)

FormatOutcome(query, width, panics) == IF panics THEN Trap ELSE format(query, width)

\* The panic hook init() installs reports the panic on the console.
Report(panics) == IF panics /\ hook THEN console + 1 ELSE console

DoLint(q, panics) ==
    /\ nCalls < MaxCalls
    /\ call' = [fn |-> "lint", query |-> q, width |-> <<>>, panics |-> panics, again |-> FALSE]
    /\ invoked' = [fn |-> "groq_lint::lint", query |-> q, width |-> <<>>,
                   result |-> IF panics THEN <<>> ELSE <<groq_lint_lint(q)>>]
    /\ ret' = LintOutcome(q, panics)
    /\ console' = Report(panics)
    /\ firstLint' = IF firstLint = <<>> /\ ~panics
                    THEN <<[query |-> q, ret |-> ret']>> ELSE firstLint
    /\ nCalls' = nCalls + 1
    /\ UNCHANGED hook

DoFormat(q, w, panics, again) ==
    /\ nCalls < MaxCalls
    /\ call' = [fn |-> "format", query |-> q, width |-> w, panics |-> panics, again |-> again]
    /\ invoked' = [fn |-> "groq_format::format_query", query |-> q,
                   width |-> <<format_width(w)>>,
                   result |-> IF panics THEN <<>>
                              ELSE <<groq_format_format_query(q, format_width(w))>>]
    /\ ret' = FormatOutcome(q, w, panics)
    /\ console' = Report(panics)
    /\ nCalls' = nCalls + 1
    /\ UNCHANGED <<hook, firstLint>>

\* The host formats the text the previous format call returned, with the same width.
Reformat ==
    /\ call.fn = "format"
    /\ ret.tag = "Ok"
    /\ DoFormat(ret.val, call.width, FALSE, TRUE)

\* One call on any query, then its output formatted again.
Next ==
    \/ nCalls = 0 /\ \E q \in Queries : DoLint(q, FALSE)
    \/ nCalls = 0 /\ \E q \in Queries, w \in WidthArgs : DoFormat(q, w, FALSE, FALSE)
    \/ Reformat

Spec == Init /\ [][Next]_vars

\* Sessions of several calls on short queries.
NextSession ==
    \/ \E q \in SessionQueries : DoLint(q, FALSE)
    \/ \E q \in SessionQueries, w \in SessionWidths : DoFormat(q, w, FALSE, FALSE)

SpecSession == Init /\ [][NextSession]_vars

\* Sessions in which the library may panic during a call.
NextFault ==
    \/ \E q \in SessionQueries, p \in BOOLEAN : DoLint(q, p)
    \/ \E q \in SessionQueries, w \in SessionWidths, p \in BOOLEAN : DoFormat(q, w, p, FALSE)

SpecFault == Init /\ [][NextFault]_vars

-----------------------------------------------------------------------------
(* Properties *)

LintReturned == call.fn = "lint" /\ ~call.panics

FormatReturned == call.fn = "format" /\ ~call.panics

\* The findings the linter returned to the last lint call.
LintFindings == invoked.result[1].findings

\* The records of the JSON text the last lint call returned.
Records == from_str(ret.val)

\* The member names of the JSON objects, as the JavaScript caller reads them.
RecordKeys ==
    << <<"r", "u", "l", "e", "I", "d">>,
       <<"m", "e", "s", "s", "a", "g", "e">>,
       <<"s", "e", "v", "e", "r", "i", "t", "y">>,
       <<"s", "t", "a", "r", "t">>,
       <<"e", "n", "d">> >>

\* C1: when the linter succeeds with findings F, lint returns Ok with a JSON
\* array of exactly one record per finding of F, in the order of F, whose
\* members are named ruleId, message, severity, start, end, record i carrying
\* F[i].rule_id, F[i].message, F[i].span.start and F[i].span.end.
C1_OneRecordPerFinding ==
    (LintReturned /\ invoked.result[1].ok) =>
        /\ ret.tag = "Ok"
        /\ Len(Records) = Len(LintFindings)
        /\ \A i \in 1..Len(LintFindings) :
              /\ Records[i].rule_id = LintFindings[i].rule_id
              /\ Records[i].message = LintFindings[i].message
              /\ Records[i].start = LintFindings[i].span.start
              /\ Records[i].end = LintFindings[i].span.end
        /\ \A o \in 1..Len(Records) :
              LET ms == ReadElements(ret.val, 2, <<>>)[o] IN
              [k \in 1..Len(ms) |-> ms[k].key] = RecordKeys
        /\ (LintFindings = <<>> => ret.val = <<"[", "]">>)

\* A lint call that returned two findings or more, one with a quote in its message.
C1_Witness ==
    /\ LintReturned /\ ret.tag = "Ok"
    /\ Len(Records) >= 2
    /\ \E i \in 1..Len(Records) : \E k \in 1..Len(Records[i].message) :
          Records[i].message[k] = "\""

\* C2: lint is all-or-nothing: when the linter fails, lint returns an error
\* and no text at all, and lint returns Ok only when the linter succeeded.
C2_AllOrNothing ==
    LintReturned =>
        /\ ~invoked.result[1].ok => (ret.tag = "Err" /\ ret.val = <<>> /\ ret.error # <<>>)
        /\ ret.tag = "Ok" => (invoked.result[1].ok /\ ret.error = <<>>)

\* A lint call on a query that does not parse, after a token that did.
C2_Witness ==
    /\ LintReturned /\ ret.tag = "Err"
    /\ ret.error[1].err.kind = "SyntaxError"
    /\ ret.error[1].err.span.start > 0

\* C3: every record of a successful lint carries its finding's severity as one
\* of the lowercase strings error, warning, info: Error gives error, Warning
\* gives warning, Info gives info.
SeverityText(sev) ==
    CASE sev = "Error" -> <<"e", "r", "r", "o", "r">>
      [] sev = "Warning" -> <<"w", "a", "r", "n", "i", "n", "g">>
      [] sev = "Info" -> <<"i", "n", "f", "o">>

C3_SeverityLowercase ==
    (LintReturned /\ ret.tag = "Ok") =>
        \A i \in 1..Len(Records) :
            /\ Records[i].severity \in {SeverityText(sev) : sev \in Severities}
            /\ Records[i].severity = SeverityText(LintFindings[i].severity)

\* A lint call that returned findings of two severities.
C3_Witness ==
    /\ LintReturned /\ ret.tag = "Ok"
    /\ \E i, j \in 1..Len(Records) : Records[i].severity # Records[j].severity

\* C4: format invokes the formatter with width 80 when no width is supplied
\* and with the supplied width otherwise, and format(query, None) returns what
\* format(query, Some(80)) returns.
C4_DefaultWidth ==
    FormatReturned =>
        /\ invoked.width = (IF call.width = <<>> THEN <<80>> ELSE call.width)
        /\ call.width = <<>> => ret = format(call.query, <<80>>)

\* A format call without a width that returned a text.
C4_Witness ==
    /\ FormatReturned /\ call.width = <<>>
    /\ ret.tag = "Ok" /\ Len(ret.val) > 1

RuleIndex(id) == CHOOSE r \in 1..Len(Rules) : <<Rules[r]>> = id

\* C5: the records lint returns are sorted by ascending start, and records
\* with the same start are in rule registration order.
C5_SortedByStart ==
    (LintReturned /\ ret.tag = "Ok") =>
        \A i \in 1..(Len(Records) - 1) :
            \/ Records[i].start < Records[i + 1].start
            \/ /\ Records[i].start = Records[i + 1].start
               /\ RuleIndex(Records[i].rule_id) <= RuleIndex(Records[i + 1].rule_id)

\* A lint call in which a rule emitted a finding after one that starts later
\* in the source.
C5_Witness ==
    /\ LintReturned /\ ret.tag = "Ok"
    /\ LET es == Collect(Parse(call.query).node) IN
       \E i \in 1..(Len(es) - 1) :
           /\ es[i + 1].rule = es[i].rule
           /\ es[i + 1].finding.span.start < es[i].finding.span.start

\* C7: every call of lint or format ends in Ok or Err, also when the library
\* panics during the call.
C7_EveryCallReturns == call.fn # "none" => ret.tag \in {"Ok", "Err"}

\* C8: format fails only when the query does not parse: it returns Ok for
\* every query that parses, with every width, and lint and format both return
\* an error for every query that does not parse.
C8_FailsOnlyOnParseFailure ==
    /\ FormatReturned => (ret.tag = "Ok" <=> Parse(call.query).ok)
    /\ (LintReturned \/ FormatReturned) =>
          (~Parse(call.query).ok => ret.tag = "Err")

\* The truncated query *[_type== formatted: a syntax error at the end of input
\* that expects an identifier or a string.
C8_Witness ==
    /\ FormatReturned
    /\ call.query = <<"*", "[", "_", "t", "y", "p", "e", "=", "=">>
    /\ ret.tag = "Err"
    /\ ret.error[1].err.kind = "SyntaxError"
    /\ ret.error[1].err.span = Span(9, 9)
    /\ {"Ident", "String"} \subseteq ret.error[1].err.expected

====
